---- MODULE Spec2Model ----
(***************************************************************************)
(* A model of wadlauncher's title-picture core (src/src/wad.rs): the two   *)
(* archive searches (load_playpal_lump, load_titlepic_lump), the dimension *)
(* sniffer (get_titlepic_dimensions) and the two picture decoders          *)
(* (decode_titlepic, decode_htitle).                                       *)
(*                                                                         *)
(* Byte buffers are sequences of integers 0..255; a Rust index i is the    *)
(* TLA+ index i + 1.  A Rust panic (slice or index out of range) is an     *)
(* outcome of its own, Panic(why): it is neither Some nor None.            *)
(***************************************************************************)
EXTENDS Integers, Sequences, FiniteSets, TLC

VARIABLES
    iwad_path,  \* the base archive argument: NoPath or the archive found at the path
    wad_path,   \* the override archive argument, likewise
    data,       \* the lump bytes handed to a decoder or to the sniffer
    palette,    \* the palette bytes handed to a decoder
    width,      \* decode_titlepic's width argument
    height,     \* decode_titlepic's height argument
    built,      \* how data was built, when it was built from a known post list
    result,     \* the outcome of the operation that ran
    pc,         \* "start", or the name of the operation that has run
    titlepic_texture,  \* App.titlepic_texture: None or Some(image)
    last_iwad_path,    \* App.last_iwad_path
    last_wad_path,     \* App.last_wad_path
    did_load,   \* whether the latest reload_titlepic_if_needed called load_titlepic
    prev_seen,  \* the paths the previous reload_titlepic_if_needed read, if any
    loop_x,     \* decode_titlepic's column x
    loop_pos,   \* decode_titlepic's read position pos in data
    loop_out,   \* decode_titlepic's output buffer out
    tabs,          \* Config.tabs, each tab named by a number
    selected_tab,  \* Config.selected_tab, counted from 0; Len(tabs) is Settings
    tab_event      \* what the latest tab bar click did, with the state before it

argvars == <<iwad_path, wad_path, data, palette, width, height, built>>
appvars == <<titlepic_texture, last_iwad_path, last_wad_path, did_load, prev_seen>>
loopvars == <<loop_x, loop_pos, loop_out>>

tabvars == <<tabs, selected_tab, tab_event>>

vars == <<argvars, result, pc, appvars, loopvars, tabvars>>

----------------------------------------------------------------------------
(* Bounds of the model. *)

\* The legacy raw picture and the fallback dimensions are 320 x 200 in the
\* source (wad.rs:35, 88, 91, 92); the model keeps the two factors as
\* parameters and checks at a small screen.
ScreenWidth == 4
ScreenHeight == 2

\* The tab bar holds 1..MaxTabs tabs.
MaxTabs == 3

\* get_titlepic_dimensions is run on buffers of 0..MaxBufLen bytes.
MaxBufLen == 13

\* decode_titlepic is run at 1..MaxWidth columns and 1..MaxHeight rows, on
\* columns of up to MaxPosts posts of up to MaxRun pixels, and on those
\* buffers with up to MaxCut bytes cut off their end.
MaxWidth == 2
MaxHeight == 2
MaxPosts == 2
MaxRun == 2
MaxCut == 4

(* Program constants. *)
PLAYPAL_LEN == 768
POST_END == 255
ALPHA == 16

----------------------------------------------------------------------------
(* Outcomes. *)

None == [kind |-> "none"]
Some(v) == [kind |-> "some", val |-> v]
Value(v) == [kind |-> "value", val |-> v]
Panic(why) == [kind |-> "panic", why |-> why]

IsSome(r) == r.kind = "some"
IsPanic(r) == r.kind = "panic"

NoPath == [kind |-> "none"]
NoData == <<>>
NoResult == [kind |-> "pending"]
NotBuilt == [seed |-> 0, posts |-> <<>>, cut |-> 0]

\* The application and the decoder loop at rest, for the specifications that
\* run one function of wad.rs alone.
AppIdle ==
    /\ titlepic_texture = [kind |-> "none"]
    /\ last_iwad_path = [kind |-> "none"]
    /\ last_wad_path = [kind |-> "none"]
    /\ did_load = FALSE
    /\ prev_seen = [kind |-> "none"]

LoopIdle == loop_x = 0 /\ loop_pos = 0 /\ loop_out = <<>>

NoEvent == [op |-> "none"]

\* config.rs:52-55: one tab, selected.
TabIdle == tabs = << 1 >> /\ selected_tab = 0 /\ tab_event = NoEvent

Min(a, b) == IF a < b THEN a ELSE b

\* The first n elements of s, all of s when it is shorter.
Take(s, n) == SubSeq(s, 1, Min(n, Len(s)))

\* n bytes following the pattern a*i + b: test content for lumps and palettes.
GenBytes(n, a, b) == [i \in 1..n |-> (a * i + b) % 256]

Palettes == { GenBytes(PLAYPAL_LEN, 1, 0), GenBytes(PLAYPAL_LEN, 7, 3) }

----------------------------------------------------------------------------
(* get_titlepic_dimensions, wad.rs:30-39. *)

u16_from_le_bytes(b0, b1) == b0 + 256 * b1

\* Mutant: the length test forgets the four header bytes.
get_titlepic_dimensions_no_header(d) ==
    IF Len(d) < 4 THEN Panic("data index")
    ELSE LET w == u16_from_le_bytes(d[1], d[2])
             h == u16_from_le_bytes(d[3], d[4])
         IN  IF w = 0 \/ h = 0 \/ Len(d) < w * 4
             THEN Value(<<ScreenWidth, ScreenHeight>>)
             ELSE Value(<<w, h>>)

\* data[0] .. data[3] are indexed before any length test: a buffer shorter
\* than four bytes panics.
get_titlepic_dimensions(d) ==
    IF Len(d) < 4 THEN Panic("data index")
    ELSE LET w == u16_from_le_bytes(d[1], d[2])
             h == u16_from_le_bytes(d[3], d[4])
         IN  IF w = 0 \/ h = 0 \/ Len(d) < 4 + w * 4
             THEN Value(<<ScreenWidth, ScreenHeight>>)
             ELSE Value(<<w, h>>)

HeaderBytes == {0, 1, 2, 255}

\* Buffers for the sniffer: a four-byte header from HeaderBytes followed by
\* zeros, cut to every length 0..MaxBufLen.
DimBuffers ==
    { Take(<<b0, b1, b2, b3>> \o [i \in 1..MaxBufLen |-> 0], n) :
        b0 \in HeaderBytes, b1 \in {0, 1}, b2 \in HeaderBytes, b3 \in {0, 1},
        n \in 0..MaxBufLen }

InitDims ==
    /\ data \in DimBuffers
    /\ iwad_path = NoPath /\ wad_path = NoPath
    /\ palette = NoData /\ width = 0 /\ height = 0 /\ built = NotBuilt
    /\ result = NoResult
    /\ pc = "start"
    /\ AppIdle /\ LoopIdle /\ TabIdle

GetTitlepicDimensions ==
    /\ pc = "start"
    /\ result' = get_titlepic_dimensions(data)
    /\ pc' = "get_titlepic_dimensions"
    /\ UNCHANGED <<argvars, appvars, loopvars, tabvars>>

NextDims == GetTitlepicDimensions

SpecDims == InitDims /\ [][NextDims]_vars

\* C7 (as claimed): for any buffer shorter than 4 bytes, the empty one
\* included, get_titlepic_dimensions returns the fallback dimensions.
C7_ShortBufferFallback ==
    (pc = "get_titlepic_dimensions" /\ Len(data) < 4)
        => result = Value(<<ScreenWidth, ScreenHeight>>)

\* C8: for every buffer of at least 4 bytes with little-endian header (w, h),
\* the result is the fallback when w = 0, h = 0 or len < 4 + 4w, and is
\* (w, h) unchanged otherwise.
C8_DimensionsSniffed ==
    (pc = "get_titlepic_dimensions" /\ Len(data) >= 4) =>
        LET w == data[1] + 256 * data[2]
            h == data[3] + 256 * data[4]
        IN  IF w = 0 \/ h = 0 \/ Len(data) < 4 + 4 * w
            THEN result = Value(<<ScreenWidth, ScreenHeight>>)
            ELSE result = Value(<<w, h>>)

\* C8 witness: a self-consistent nonzero header, other than the fallback
\* pair, came back unchanged.
C8_Witness ==
    /\ pc = "get_titlepic_dimensions"
    /\ Len(data) >= 4
    /\ data[1] = 2 /\ data[2] = 0 /\ data[3] = 1 /\ data[4] = 0
    /\ Len(data) = 12
    /\ result = Value(<<2, 1>>)

----------------------------------------------------------------------------
(* decode_htitle, wad.rs:87-100. *)

\* out[4i + k] for the raw picture: the palette triple of data[i], then alpha.
RawByte(d, p, j) ==
    LET i == (j - 1) \div 4
        k == (j - 1) % 4
    IN  IF k = 3 THEN ALPHA ELSE p[d[i + 1] * 3 + k + 1]

\* Mutant: any buffer of at least 320*200 bytes is accepted.
decode_htitle_accepts_longer(d, p) ==
    IF Len(d) < ScreenWidth * ScreenHeight THEN None
    ELSE IF \E i \in 1..(ScreenWidth * ScreenHeight) : d[i] * 3 + 3 > Len(p)
    THEN Panic("palette index")
    ELSE Some([j \in 1..(ScreenWidth * ScreenHeight * 4) |-> RawByte(d, p, j)])

\* Mutant: the palette is indexed by pal_idx, not by pal_idx * 3.
decode_htitle_no_stride(d, p) ==
    IF Len(d) # ScreenWidth * ScreenHeight THEN None
    ELSE Some([j \in 1..(ScreenWidth * ScreenHeight * 4) |->
                 LET i == (j - 1) \div 4
                     k == (j - 1) % 4
                 IN  IF k = 3 THEN ALPHA ELSE p[d[i + 1] + k + 1]])

decode_htitle(d, p) ==
    IF Len(d) # ScreenWidth * ScreenHeight THEN None
    ELSE IF \E i \in 1..(ScreenWidth * ScreenHeight) : d[i] * 3 + 3 > Len(p)
    THEN Panic("palette index")
    ELSE Some([j \in 1..(ScreenWidth * ScreenHeight * 4) |-> RawByte(d, p, j)])

RawLens ==
    { 0, ScreenWidth * ScreenHeight - 1, ScreenWidth * ScreenHeight,
      ScreenWidth * ScreenHeight + 1, 2 * ScreenWidth * ScreenHeight,
      ScreenWidth * ScreenHeight * 4 }

RawBuffers ==
    { GenBytes(n, a, b) : n \in RawLens, a \in {0, 1, 5}, b \in {0, 1, 100, 250, 255} }

InitRaw ==
    /\ data \in RawBuffers
    /\ palette \in Palettes
    /\ iwad_path = NoPath /\ wad_path = NoPath
    /\ width = 0 /\ height = 0 /\ built = NotBuilt
    /\ result = NoResult
    /\ pc = "start"
    /\ AppIdle /\ LoopIdle /\ TabIdle

DecodeHtitle ==
    /\ pc = "start"
    /\ result' = decode_htitle(data, palette)
    /\ pc' = "decode_htitle"
    /\ UNCHANGED <<argvars, appvars, loopvars, tabvars>>

NextRaw == DecodeHtitle

SpecRaw == InitRaw /\ [][NextRaw]_vars

\* C9: decode_htitle returns a result if and only if the buffer holds exactly
\* 320*200 bytes (nothing for any other length), and a returned buffer holds
\* exactly 320*200*4 bytes.
C9_RawLengthExact ==
    pc = "decode_htitle" =>
        /\ IsSome(result) <=> Len(data) = ScreenWidth * ScreenHeight
        /\ Len(data) # ScreenWidth * ScreenHeight => result = None
        /\ IsSome(result) => Len(result.val) = ScreenWidth * ScreenHeight * 4

\* C9 witness: a buffer of exactly 320*200 bytes was decoded.
C9_Witness ==
    /\ pc = "decode_htitle"
    /\ Len(data) = ScreenWidth * ScreenHeight
    /\ IsSome(result)
    /\ Len(result.val) = ScreenWidth * ScreenHeight * 4

\* C10: when decode_htitle succeeds, for every pixel i the output bytes
\* 4i..4i+3 are the palette triple of data[i] followed by alpha 16, in the
\* order of the input.
C10_RawPixels ==
    (pc = "decode_htitle" /\ IsSome(result)) =>
        \A i \in 0..(ScreenWidth * ScreenHeight - 1) :
            /\ result.val[4 * i + 1] = palette[3 * data[i + 1] + 1]
            /\ result.val[4 * i + 2] = palette[3 * data[i + 1] + 2]
            /\ result.val[4 * i + 3] = palette[3 * data[i + 1] + 3]
            /\ result.val[4 * i + 4] = 16

\* C10 witness: a decoded picture whose pixels differ from one another, the
\* last palette entry among them.
C10_Witness ==
    /\ pc = "decode_htitle"
    /\ IsSome(result)
    /\ data[1] # data[2]
    /\ \E i \in 1..Len(data) : data[i] = 255

----------------------------------------------------------------------------
(* decode_titlepic, wad.rs:41-85. *)

\* Mutant: the four bytes are read most significant first.
u32_from_be_bytes(b0, b1, b2, b3) ==
    IF b0 >= 128 THEN 2147483647
    ELSE b3 + 256 * b2 + 65536 * b1 + 16777216 * b0

\* wad.rs:54-58: u32::from_le_bytes(...) as usize.  A value from 2^31 on,
\* which no integer here can hold and which lies past the end of every
\* buffer, is read as 2^31 - 1.
u32_from_le_bytes(b0, b1, b2, b3) ==
    IF b3 >= 128 THEN 2147483647
    ELSE b0 + 256 * b1 + 65536 * b2 + 16777216 * b3

u32_to_le_bytes(v) ==
    << v % 256, (v \div 256) % 256, (v \div 65536) % 256, (v \div 16777216) % 256 >>

\* Mutant: the test compares the length with width, not with width * 4.
OffsetTableMissing_no_stride(d, w) == Len(d) < w

\* wad.rs:49: the buffer cannot hold the table of w column offsets.
OffsetTableMissing(d, w) == Len(d) < w * 4

\* Mutant: the post header is taken to be two bytes long.
PixelStart_two(pos) == pos + 2

\* wad.rs:71: the pixels of the post at pos start after its three header bytes.
PixelStart(pos) == pos + 3

\* Mutant: the unused byte that ends a post is not skipped.
NextPost_no_skip(pos) == pos

\* wad.rs:81: the next post starts after the unused byte that ends this one.
NextPost(pos) == pos + 1

\* wad.rs:74: the offset in out of the pixel in column x of row y.
Dst(w, x, y) == (y * w + x) * 4

Continue(pos, out) == [kind |-> "continue", pos |-> pos, out |-> out]

\* wad.rs:72-80: rows y .. y_end - 1 of one post, its pixel bytes read from pos.
\* data[pos], palette[..] and out[..] are checked indexes: each panics when
\* out of range, in the order the statements evaluate them.
RECURSIVE WritePixels(_, _, _, _, _, _, _, _)
WritePixels(d, p, w, x, y, y_end, pos, out) ==
    IF y >= y_end THEN Continue(pos, out)
    ELSE IF pos >= Len(d) THEN Panic("data index")
    ELSE LET pal_idx == d[pos + 1]
             dst == Dst(w, x, y)
         IN  IF pal_idx * 3 >= Len(p) THEN Panic("palette index")
             ELSE IF dst >= Len(out) THEN Panic("out index")
             ELSE IF pal_idx * 3 + 2 >= Len(p) THEN Panic("palette index")
             ELSE WritePixels(d, p, w, x, y + 1, y_end, pos + 1,
                     [out EXCEPT ![dst + 1] = p[pal_idx * 3 + 1],
                                 ![dst + 2] = p[pal_idx * 3 + 2],
                                 ![dst + 3] = p[pal_idx * 3 + 3],
                                 ![dst + 4] = ALPHA])

\* wad.rs:62-82: the posts of column x, read from pos on.
RECURSIVE DecodeColumn(_, _, _, _, _, _)
DecodeColumn(d, p, w, x, pos, out) ==
    IF pos >= Len(d) THEN Continue(pos, out)
    ELSE LET y_start == d[pos + 1]
         IN  IF y_start = POST_END THEN Continue(pos, out)
             ELSE IF pos + 1 >= Len(d) THEN Panic("data index")
             ELSE LET n_pixels == d[pos + 2]
                      r == WritePixels(d, p, w, x, y_start, y_start + n_pixels,
                                       PixelStart(pos), out)
                  IN  IF IsPanic(r) THEN r
                      ELSE DecodeColumn(d, p, w, x, NextPost(r.pos), r.out)

\* wad.rs:52-59: col_offsets[x].
ColOffset(d, x) ==
    u32_from_le_bytes(d[x * 4 + 1], d[x * 4 + 2], d[x * 4 + 3], d[x * 4 + 4])

\* wad.rs:52-83: the offset table is read whole, then the columns x .. w - 1.
RECURSIVE DecodeColumns(_, _, _, _, _)
DecodeColumns(d, p, w, x, out) ==
    IF x >= w THEN Some(out)
    ELSE LET r == DecodeColumn(d, p, w, x, ColOffset(d, x), out)
         IN  IF IsPanic(r) THEN r ELSE DecodeColumns(d, p, w, x + 1, r.out)

decode_titlepic(d, p, w, h) ==
    IF OffsetTableMissing(d, w) THEN None
    ELSE IF Len(d) < w * 4 THEN Panic("data index")  \* data[i * 4 + 3], checked
    ELSE DecodeColumns(d, p, w, 0, [i \in 1..(w * h * 4) |-> 0])

(* Primary-format buffers built from a known post list. *)

\* A post is <<start_row, run_length>>; a column is a sequence of at most
\* MaxPosts posts, top to bottom.  Start rows run up to MaxHeight, so that
\* a post can reach below the picture.
PostSet == { <<s, n>> : s \in 0..MaxHeight, n \in 0..MaxRun }

Columns ==
    { c \in UNION { [1..k -> PostSet] : k \in 0..MaxPosts } :
        \A j \in 1..(Len(c) - 1) : c[j][1] < c[j + 1][1] }

PixelSeeds == {1, 250}

\* The palette index of pixel k (from 0) of post j of column x.
PixelIndex(seed, x, j, k) == (seed + 16 * x + 4 * j + k) % 256

\* The bytes of one post: start_row, run_length, an unused byte, the pixels,
\* an unused byte.
PostBytes(seed, x, c, j) ==
    << c[j][1], c[j][2], 0 >>
        \o [k \in 1..c[j][2] |-> PixelIndex(seed, x, j, k - 1)]
        \o << 0 >>

RECURSIVE PostsBytes(_, _, _, _)
PostsBytes(seed, x, c, j) ==
    IF j > Len(c) THEN << POST_END >>
    ELSE PostBytes(seed, x, c, j) \o PostsBytes(seed, x, c, j + 1)

ColumnBytes(seed, x, c) == PostsBytes(seed, x, c, 1)

RECURSIVE ColumnsBytes(_, _, _, _)
ColumnsBytes(seed, w, c, x) ==
    IF x >= w THEN <<>>
    ELSE ColumnBytes(seed, x, c) \o ColumnsBytes(seed, w, c, x + 1)

\* The buffer of a picture of w columns, each holding the posts c with its
\* own pixel values: the table of w offsets, then the columns in order.
BuildPatch(seed, w, c) ==
    LET collen == Len(ColumnBytes(seed, 0, c))
        Table[x \in 0..w] ==
            IF x = w THEN <<>> ELSE u32_to_le_bytes(w * 4 + x * collen) \o Table[x + 1]
    IN  Table[0] \o ColumnsBytes(seed, w, c, 0)

\* Every post lies inside rows 0 .. h - 1 and below the post before it.
ValidColumn(c, h) ==
    /\ \A j \in 1..Len(c) : c[j][1] + c[j][2] <= h
    /\ \A j \in 1..(Len(c) - 1) : c[j][1] + c[j][2] <= c[j + 1][1]

\* Some post of c addresses a row >= h.
ReachesBelow(c, h) == \E j \in 1..Len(c) : c[j][2] > 0 /\ c[j][1] + c[j][2] > h

InitPatch ==
    /\ width \in 1..MaxWidth
    /\ height \in 1..MaxHeight
    /\ built \in [seed : PixelSeeds, posts : Columns, cut : 0..MaxCut]
    /\ data = LET b == BuildPatch(built.seed, width, built.posts)
              IN  SubSeq(b, 1, Len(b) - built.cut)
    /\ palette \in Palettes
    /\ iwad_path = NoPath /\ wad_path = NoPath
    /\ result = NoResult
    /\ pc = "start"
    /\ AppIdle /\ LoopIdle /\ TabIdle

DecodeTitlepic ==
    /\ pc = "start"
    /\ result' = decode_titlepic(data, palette, width, height)
    /\ pc' = "decode_titlepic"
    /\ UNCHANGED <<argvars, appvars, loopvars, tabvars>>

NextPatch == DecodeTitlepic

SpecPatch == InitPatch /\ [][NextPatch]_vars

\* The post of column c covering row y, 0 when there is none.
CoveringPost(c, y) ==
    IF \E j \in 1..Len(c) : c[j][1] <= y /\ y < c[j][1] + c[j][2]
    THEN CHOOSE j \in 1..Len(c) : c[j][1] <= y /\ y < c[j][1] + c[j][2]
    ELSE 0

\* The four bytes the posts c imply for pixel (x, y).
ImpliedPixel(seed, c, p, x, y) ==
    LET j == CoveringPost(c, y)
    IN  IF j = 0 THEN << 0, 0, 0, 0 >>
        ELSE LET idx == PixelIndex(seed, x, j, y - c[j][1])
             IN  << p[3 * idx + 1], p[3 * idx + 2], p[3 * idx + 3], 16 >>

\* C3: for a valid palette and a valid Primary-format buffer built from known
\* dimensions and a known post list, decode_titlepic returns a buffer whose
\* pixel (x, row) holds the palette triple of the covering post's index with
\* alpha 16, and all-zero RGBA where no post covers it.
C3_PostsDecoded ==
    (pc = "decode_titlepic" /\ built.cut = 0 /\ ValidColumn(built.posts, height)) =>
            /\ IsSome(result)
            /\ Len(result.val) = width * height * 4
            /\ \A x \in 0..(width - 1), y \in 0..(height - 1) :
                 SubSeq(result.val, (y * width + x) * 4 + 1, (y * width + x) * 4 + 4)
                     = ImpliedPixel(built.seed, built.posts, palette, x, y)

\* C3 witness: a picture of two columns was decoded from two posts a column,
\* leaving no pixel unwritten.
C3_Witness ==
    /\ pc = "decode_titlepic"
    /\ width = 2 /\ height = 2
    /\ built = [seed |-> 250, posts |-> << <<0, 1>>, <<1, 1>> >>, cut |-> 0]
    /\ IsSome(result)
    /\ \A i \in 1..4 : result.val[4 * i] = 16


\* C4 (as claimed): when a post of a well-formed buffer addresses a row >=
\* height, decode_titlepic skips those rows and still returns a result.
C4_RowsBelowSkipped ==
    (pc = "decode_titlepic" /\ built.cut = 0 /\ ReachesBelow(built.posts, height))
        => IsSome(result)

\* C5 (as claimed): when the read position passes the end of the buffer in
\* the middle of a post, the column stops early and no error occurs.
C5_OverrunStopsColumn ==
    pc = "decode_titlepic" => result # Panic("data index")

\* C6: for every buffer shorter than width * 4, decode_titlepic returns
\* nothing; no byte at or beyond the end of the buffer is read (such a read
\* is the outcome Panic("data index")).
C6_ShortBufferNone ==
    (pc = "decode_titlepic" /\ Len(data) < width * 4) => result = None

\* C6 witness: a buffer holding part of its offset table was refused.
C6_Witness ==
    /\ pc = "decode_titlepic"
    /\ width = 2
    /\ Len(data) = 7
    /\ result = None

----------------------------------------------------------------------------
(* Archives and the two lump searches, wad.rs:1-28. *)

\* A path argument is NoPath or Some(archive), the archive being what the
\* wad crate finds at the path: whether load_wad_file opens it, and for each
\* entry name what by_id returns, None or Some(bytes).
LumpNames == {"PLAYPAL", "TITLEPIC", "TITLE", "HTITLE"}

load_wad_file(a) == a.opens

by_id(a, name) == a.lumps[name]

\* Mutant: the base archive is searched before the override archive.
CandidatePaths_base_first(iwad, wad) ==
    SelectSeq(<<iwad, wad>>, LAMBDA q : q # NoPath)

\* wad.rs:2 and 17: [wad_path, iwad_path].into_iter().flatten().
CandidatePaths(iwad, wad) ==
    SelectSeq(<<wad, iwad>>, LAMBDA q : q # NoPath)

\* wad.rs:2-9, from candidate i on.  data[0..768] is a checked slice: it
\* panics on an entry shorter than 768 bytes.
RECURSIVE PlaypalSearch(_, _)
PlaypalSearch(cands, i) ==
    IF i > Len(cands) THEN None
    ELSE LET a == cands[i].val
         IN  IF load_wad_file(a) /\ IsSome(by_id(a, "PLAYPAL"))
             THEN LET d == by_id(a, "PLAYPAL").val
                  IN  IF Len(d) < PLAYPAL_LEN THEN Panic("slice index")
                      ELSE Some(SubSeq(d, 1, PLAYPAL_LEN))
             ELSE PlaypalSearch(cands, i + 1)

\* Mutant: the palette is the first 765 bytes of the entry.
load_playpal_lump_765(iwad, wad) ==
    LET r == PlaypalSearch(CandidatePaths(iwad, wad), 1)
    IN  IF IsSome(r) THEN Some(SubSeq(r.val, 1, PLAYPAL_LEN - 3)) ELSE r

load_playpal_lump(iwad, wad) == PlaypalSearch(CandidatePaths(iwad, wad), 1)

\* wad.rs:16.
TITLE_LUMPS == << "TITLEPIC", "TITLE", "HTITLE" >>

\* wad.rs:17-27, from name j of candidate i on.
RECURSIVE TitleSearch(_, _, _)
TitleSearch(cands, i, j) ==
    IF i > Len(cands) THEN None
    ELSE IF ~load_wad_file(cands[i].val) \/ j > Len(TITLE_LUMPS)
    THEN TitleSearch(cands, i + 1, 1)
    ELSE LET lump == TITLE_LUMPS[j]
             entry == by_id(cands[i].val, lump)
         IN  IF IsSome(entry) THEN Some(<< lump, entry.val >>)
             ELSE TitleSearch(cands, i, j + 1)

\* Mutant: the title lump is searched only in the archives holding PLAYPAL.
load_titlepic_lump_with_palette(iwad, wad) ==
    TitleSearch(SelectSeq(CandidatePaths(iwad, wad),
                          LAMBDA q : IsSome(by_id(q.val, "PLAYPAL"))), 1, 1)

load_titlepic_lump(iwad, wad) == TitleSearch(CandidatePaths(iwad, wad), 1, 1)

\* PLAYPAL entries: absent, one palette block, several blocks, a short entry.
PlaypalEntries ==
    { None,
      Some(GenBytes(PLAYPAL_LEN, 1, 0)),
      Some(GenBytes(PLAYPAL_LEN, 7, 3)),
      Some(GenBytes(2 * PLAYPAL_LEN, 7, 3)),
      Some(GenBytes(PLAYPAL_LEN - 1, 1, 0)) }

TitleEntries == { None, Some(<<>>), Some(<<7>>) }

UnopenedArchive == [opens |-> FALSE, lumps |-> [n \in LumpNames |-> None]]

Archives ==
    { UnopenedArchive } \cup
    { [opens |-> TRUE,
       lumps |-> [n \in LumpNames |->
                    CASE n = "PLAYPAL" -> pp
                      [] n = "TITLEPIC" -> t1
                      [] n = "TITLE" -> t2
                      [] OTHER -> t3]] :
        pp \in PlaypalEntries, t1 \in TitleEntries, t2 \in TitleEntries,
        t3 \in TitleEntries }

PathArgs == { NoPath } \cup { Some(a) : a \in Archives }

InitResolve ==
    /\ iwad_path \in PathArgs
    /\ wad_path \in PathArgs
    /\ data = NoData /\ palette = NoData
    /\ width = 0 /\ height = 0 /\ built = NotBuilt
    /\ result = NoResult
    /\ pc = "start"
    /\ AppIdle /\ LoopIdle /\ TabIdle

LoadPlaypalLump ==
    /\ pc = "start"
    /\ result' = load_playpal_lump(iwad_path, wad_path)
    /\ pc' = "load_playpal_lump"
    /\ UNCHANGED <<argvars, appvars, loopvars, tabvars>>

LoadTitlepicLump ==
    /\ pc = "start"
    /\ result' = load_titlepic_lump(iwad_path, wad_path)
    /\ pc' = "load_titlepic_lump"
    /\ UNCHANGED <<argvars, appvars, loopvars, tabvars>>

NextResolve == LoadPlaypalLump \/ LoadTitlepicLump

SpecResolve == InitResolve /\ [][NextResolve]_vars

\* The path argument q names an archive that opens and holds entry name.
Holds(q, name) ==
    /\ q # NoPath
    /\ q.val.opens
    /\ q.val.lumps[name] # None

\* The six (archive, name) combinations in the order of the claim.
TitleProbes ==
    << <<wad_path, "TITLEPIC">>, <<wad_path, "TITLE">>, <<wad_path, "HTITLE">>,
       <<iwad_path, "TITLEPIC">>, <<iwad_path, "TITLE">>, <<iwad_path, "HTITLE">> >>

\* C1: load_titlepic_lump returns the first hit in the order override
\* TITLEPIC, TITLE, HTITLE, then base TITLEPIC, TITLE, HTITLE, tagged with
\* the name that matched, and nothing when no combination yields data; an
\* override's legacy entry wins over the base archive's TITLEPIC.
C1_TitleLumpOrder ==
    pc = "load_titlepic_lump" =>
        /\ \A k \in 1..6 :
             ( /\ Holds(TitleProbes[k][1], TitleProbes[k][2])
               /\ \A j \in 1..(k - 1) : ~Holds(TitleProbes[j][1], TitleProbes[j][2]) )
             => result = Some(<< TitleProbes[k][2],
                                 TitleProbes[k][1].val.lumps[TitleProbes[k][2]].val >>)
        /\ (\A k \in 1..6 : ~Holds(TitleProbes[k][1], TitleProbes[k][2]))
             => result = None

\* C1 witness: the override holds only a legacy entry, the base holds
\* TITLEPIC with other bytes, and the override's legacy entry came back.
C1_Witness ==
    /\ pc = "load_titlepic_lump"
    /\ Holds(wad_path, "HTITLE")
    /\ ~Holds(wad_path, "TITLEPIC") /\ ~Holds(wad_path, "TITLE")
    /\ Holds(iwad_path, "TITLEPIC")
    /\ wad_path.val.lumps["HTITLE"] # iwad_path.val.lumps["TITLEPIC"]
    /\ result = Some(<< "HTITLE", wad_path.val.lumps["HTITLE"].val >>)

\* C2 (as claimed): load_playpal_lump returns exactly the first 768 bytes of
\* the first PLAYPAL entry in override-then-base order, skipping archives
\* that do not open or lack the entry, and nothing when no candidate has it.
C2_PlaypalFirst768 ==
    pc = "load_playpal_lump" =>
        IF Holds(wad_path, "PLAYPAL")
        THEN /\ IsSome(result)
             /\ Len(result.val) = 768
             /\ result.val = Take(wad_path.val.lumps["PLAYPAL"].val, 768)
        ELSE IF Holds(iwad_path, "PLAYPAL")
        THEN /\ IsSome(result)
             /\ Len(result.val) = 768
             /\ result.val = Take(iwad_path.val.lumps["PLAYPAL"].val, 768)
        ELSE result = None

----------------------------------------------------------------------------
(* App::load_titlepic, app/mod.rs:22-47. *)

\* One entry of the record of calls a load attempt made: the function, the
\* dimensions it was given (0 when it takes none) and the kind of its outcome.
Call(fn, w, h, r) == [fn |-> fn, width |-> w, height |-> h, ret |-> r.kind]

\* What a load attempt leaves: its return value, App.titlepic_texture and
\* the calls it made, in order.
Attempt(ret, texture, calls) == [ret |-> ret, texture |-> texture, calls |-> calls]

\* app/mod.rs:43-45: the texture made of the decoded image.
\* ColorImage::from_rgba_unmultiplied panics unless img holds w * h * 4 bytes.
Texture(w, h, img) == [width |-> w, height |-> h, rgba |-> img]

Finish(w, h, decoded, calls) ==
    IF IsPanic(decoded) THEN Attempt(decoded, None, calls)
    ELSE IF ~IsSome(decoded) THEN Attempt(None, None, calls)
    ELSE IF Len(decoded.val) # w * h * 4 THEN Attempt(Panic("image size"), None, calls)
    ELSE Attempt(Some(<<>>), Some(Texture(w, h, decoded.val)), calls)

\* Mutant: only HTITLE is taken for a legacy name.
IsLegacyName_htitle_only(lump_name) == lump_name = "HTITLE"

\* app/mod.rs:32: the arm "TITLE" | "HTITLE".
IsLegacyName(lump_name) == lump_name \in {"TITLE", "HTITLE"}

\* app/mod.rs:32-36: the raw decoder, or else the patch decoder at 320 x 200.
DecodeLegacy(titlepic, pal, calls) ==
    LET raw == decode_htitle(titlepic, pal)
        calls1 == Append(calls, Call("decode_htitle", 0, 0, raw))
    IN  IF IsSome(raw) \/ IsPanic(raw)
        THEN Finish(ScreenWidth, ScreenHeight, raw, calls1)
        ELSE LET patch == decode_titlepic(titlepic, pal, ScreenWidth, ScreenHeight)
             IN  Finish(ScreenWidth, ScreenHeight, patch,
                        Append(calls1, Call("decode_titlepic", ScreenWidth, ScreenHeight, patch)))

\* app/mod.rs:37-41: the patch decoder at the sniffed dimensions.
DecodePrimary(titlepic, pal, calls) ==
    LET dims == get_titlepic_dimensions(titlepic)
        calls1 == Append(calls, Call("get_titlepic_dimensions", 0, 0, dims))
    IN  IF IsPanic(dims) THEN Attempt(dims, None, calls1)
        ELSE LET w == dims.val[1]
                 h == dims.val[2]
                 img == decode_titlepic(titlepic, pal, w, h)
             IN  Finish(w, h, img, Append(calls1, Call("decode_titlepic", w, h, img)))

\* Mutant: without a palette the attempt goes on with an all-black one.
load_titlepic_default_palette(iwad, wad) ==
    LET found == load_playpal_lump(iwad, wad)
        pal == IF found = None THEN Some([i \in 1..PLAYPAL_LEN |-> 0]) ELSE found
        calls1 == << Call("load_playpal_lump", 0, 0, found) >>
    IN  IF ~IsSome(pal) THEN Attempt(pal, None, calls1)
        ELSE LET lump == load_titlepic_lump(iwad, wad)
                 calls2 == Append(calls1, Call("load_titlepic_lump", 0, 0, lump))
             IN  IF ~IsSome(lump) THEN Attempt(lump, None, calls2)
                 ELSE IF IsLegacyName(lump.val[1])
                 THEN DecodeLegacy(lump.val[2], pal.val, calls2)
                 ELSE DecodePrimary(lump.val[2], pal.val, calls2)

\* app/mod.rs:28-46.  The texture is cleared first; each ? returns None with
\* the texture left cleared; a panic of a callee is the attempt's outcome.
load_titlepic(iwad, wad) ==
    LET pal == load_playpal_lump(iwad, wad)
        calls1 == << Call("load_playpal_lump", 0, 0, pal) >>
    IN  IF ~IsSome(pal) THEN Attempt(pal, None, calls1)
        ELSE LET lump == load_titlepic_lump(iwad, wad)
                 calls2 == Append(calls1, Call("load_titlepic_lump", 0, 0, lump))
             IN  IF ~IsSome(lump) THEN Attempt(lump, None, calls2)
                 ELSE IF IsLegacyName(lump.val[1])
                 THEN DecodeLegacy(lump.val[2], pal.val, calls2)
                 ELSE DecodePrimary(lump.val[2], pal.val, calls2)

(* Archives for whole load attempts. *)

\* A Primary-format buffer whose first four bytes are the little-endian
\* (w, h) pair, laid over the offset of column 0.
OverlayPatch(seed, w, h, c) ==
    << w % 256, w \div 256, h % 256, h \div 256 >>
        \o SubSeq(BuildPatch(seed, w, c), 5, Len(BuildPatch(seed, w, c)))

\* One post writing palette index 1 at row 0, then the end of the column.
RedColumn == << 0, 1, 0, 1, 0, POST_END >>

\* A 2 x 1 picture, one RedColumn a column, in three layouts: the engine's
\* (w, h, two 16-bit offsets, the offset table, the columns), the overlaid one
\* (w and h over the first table entry) and the bare one (table, columns).
EnginePatch2x1 ==
    << 2, 0, 1, 0, 0, 0, 0, 0 >> \o u32_to_le_bytes(16) \o u32_to_le_bytes(22)
        \o RedColumn \o RedColumn

OverlaidPatch2x1 ==
    << 2, 0, 1, 0 >> \o u32_to_le_bytes(14) \o RedColumn \o RedColumn

BarePatch2x1 ==
    u32_to_le_bytes(8) \o u32_to_le_bytes(14) \o RedColumn \o RedColumn

Patches2x1 == { EnginePatch2x1, OverlaidPatch2x1, BarePatch2x1 }

\* A palette whose index 1 is RGB(255, 0, 0), every other entry black.
RedPalette == [i \in 1..PLAYPAL_LEN |-> IF i = 4 THEN 255 ELSE 0]

\* Title lumps: raw pictures of the screen size, patches of the screen's
\* width (valid, reaching below the picture, ending inside a post), patches
\* carrying their own dimensions, the 2 x 1 pictures, and short buffers.
\* The patch of seed 251 has palette index 255 as its first pixel.
TitleContents ==
    { GenBytes(ScreenWidth * ScreenHeight, 1, 0),
      BuildPatch(251, ScreenWidth, << <<0, 1>> >>),
      GenBytes(ScreenWidth * ScreenHeight, 0, 255),
      BuildPatch(1, ScreenWidth, << <<0, 1>> >>),
      BuildPatch(250, ScreenWidth, << <<0, 1>>, <<1, 1>> >>),
      BuildPatch(1, ScreenWidth, << <<ScreenHeight, 1>> >>),
      Take(BuildPatch(1, ScreenWidth, << <<0, 1>> >>), 4 * ScreenWidth + 2),
      OverlayPatch(1, 2, 1, << <<0, 1>> >>),
      OverlayPatch(250, 1, 2, << <<0, 2>> >>),
      <<>>, <<7>> }
    \cup Patches2x1

LoadPlaypals ==
    { None, Some(GenBytes(2 * PLAYPAL_LEN, 7, 3)), Some(RedPalette),
      Some(GenBytes(PLAYPAL_LEN - 1, 1, 0)) }

\* Archives holding at most one title entry.
LoadArchives ==
    { UnopenedArchive } \cup
    { [opens |-> TRUE,
       lumps |-> [n \in LumpNames |->
                    IF n = "PLAYPAL" THEN pp ELSE IF n = t THEN Some(c) ELSE None]] :
        pp \in LoadPlaypals, t \in {"TITLEPIC", "TITLE", "HTITLE", "none"},
        c \in TitleContents }

LoadPathArgs == { NoPath } \cup { Some(a) : a \in LoadArchives }

InitLoad ==
    /\ iwad_path \in LoadPathArgs
    /\ wad_path \in LoadPathArgs
    /\ data = NoData /\ palette = NoData
    /\ width = 0 /\ height = 0 /\ built = NotBuilt
    /\ result = NoResult
    /\ pc = "start"
    /\ AppIdle /\ LoopIdle /\ TabIdle

\* Mutant: a failed attempt keeps the texture shown before it.
TextureAfter_keep_old(old, attempt) ==
    IF IsSome(attempt.texture) THEN attempt.texture ELSE old

\* mod.rs:28 and 44-45: the texture is cleared when the attempt starts and
\* set only when it succeeds.
TextureAfter(old, attempt) == attempt.texture

\* A load attempt on an application showing no image.
LoadTitlepic ==
    /\ pc = "start"
    /\ result' = load_titlepic(iwad_path, wad_path)
    /\ titlepic_texture' = TextureAfter(titlepic_texture, result')
    /\ pc' = "load_titlepic"
    /\ UNCHANGED <<argvars, last_iwad_path, last_wad_path, did_load, prev_seen, loopvars, tabvars>>

NextLoad == LoadTitlepic

SpecLoad == InitLoad /\ [][NextLoad]_vars

\* The calls of the attempt after the two lump searches.
DecoderCalls == SubSeq(result.calls, 3, Len(result.calls))

\* The attempt found a palette and a title lump named by one of names.
Resolved(names) ==
    /\ pc = "load_titlepic"
    /\ Len(result.calls) >= 2
    /\ result.calls[2].ret = "some"
    /\ \E k \in 1..6 :
         /\ TitleProbes[k][2] \in names
         /\ Holds(TitleProbes[k][1], TitleProbes[k][2])
         /\ \A j \in 1..(k - 1) : ~Holds(TitleProbes[j][1], TitleProbes[j][2])

\* C11: for tag TITLE or HTITLE the raw decoder runs first and the patch
\* decoder runs, at 320 x 200, only if the raw decoder returned nothing, the
\* image being reported as 320 x 200 either way; for tag TITLEPIC the
\* dimensions are sniffed and the patch decoder runs at exactly those, with
\* no further fallback.
C11_FormatDispatch ==
    /\ Resolved({"TITLE", "HTITLE"}) =>
         /\ Len(DecoderCalls) \in {1, 2}
         /\ DecoderCalls[1].fn = "decode_htitle"
         /\ Len(DecoderCalls) = 2 <=> DecoderCalls[1].ret = "none"
         /\ Len(DecoderCalls) = 2 =>
              DecoderCalls[2] =
                  [fn |-> "decode_titlepic", width |-> ScreenWidth,
                   height |-> ScreenHeight, ret |-> DecoderCalls[2].ret]
         /\ IsSome(result.ret) <=> DecoderCalls[Len(DecoderCalls)].ret = "some"
         /\ IsSome(result.ret) =>
              /\ result.texture.val.width = ScreenWidth
              /\ result.texture.val.height = ScreenHeight
    /\ Resolved({"TITLEPIC"}) =>
         /\ Len(DecoderCalls) \in {1, 2}
         /\ DecoderCalls[1].fn = "get_titlepic_dimensions"
         /\ Len(DecoderCalls) = 2 <=> DecoderCalls[1].ret = "value"
         /\ Len(DecoderCalls) = 2 =>
              /\ DecoderCalls[2].fn = "decode_titlepic"
              /\ Value(<< DecoderCalls[2].width, DecoderCalls[2].height >>)
                     = get_titlepic_dimensions(
                           IF Holds(wad_path, "TITLEPIC")
                           THEN wad_path.val.lumps["TITLEPIC"].val
                           ELSE iwad_path.val.lumps["TITLEPIC"].val)
              /\ IsSome(result.ret) <=> DecoderCalls[2].ret = "some"
              /\ IsSome(result.ret) =>
                   /\ result.texture.val.width = DecoderCalls[2].width
                   /\ result.texture.val.height = DecoderCalls[2].height

\* C11 witness: a legacy-named lump that is no raw picture was decoded as a
\* patch at 320 x 200.
C11_Witness ==
    /\ Resolved({"TITLE", "HTITLE"})
    /\ Len(DecoderCalls) = 2
    /\ DecoderCalls[1] = [fn |-> "decode_htitle", width |-> 0, height |-> 0, ret |-> "none"]
    /\ DecoderCalls[2].ret = "some"
    /\ IsSome(result.ret)
    /\ result.texture.val.width = ScreenWidth

\* The functions that read the bytes of a title lump.
DecoderNames == {"get_titlepic_dimensions", "decode_titlepic", "decode_htitle"}

\* C12: if neither the override nor the base archive yields a palette entry,
\* the load returns no image whether or not a title lump is present, and the
\* title lump is not decoded.
C12_NoPaletteNoImage ==
    (pc = "load_titlepic" /\ ~Holds(wad_path, "PLAYPAL") /\ ~Holds(iwad_path, "PLAYPAL")) =>
        /\ result.ret = None
        /\ result.texture = None
        /\ titlepic_texture = None
        /\ \A i \in 1..Len(result.calls) : result.calls[i].fn \notin DecoderNames

\* C12 witness: both archives open, each holds a title lump, neither holds
\* a palette, and the attempt returned nothing.
C12_Witness ==
    /\ pc = "load_titlepic"
    /\ ~Holds(wad_path, "PLAYPAL") /\ ~Holds(iwad_path, "PLAYPAL")
    /\ Holds(wad_path, "TITLE") /\ Holds(iwad_path, "TITLEPIC")
    /\ result.ret = None

\* The first PLAYPAL entry in override-then-base order, <<>> when there is none.
FirstPlaypal ==
    IF Holds(wad_path, "PLAYPAL") THEN wad_path.val.lumps["PLAYPAL"].val
    ELSE IF Holds(iwad_path, "PLAYPAL") THEN iwad_path.val.lumps["PLAYPAL"].val
    ELSE <<>>

\* C13 (as claimed): a palette entry that is present but shorter than 768
\* bytes is folded into "no image": the load returns nothing and does not
\* fail fatally.
C13_ShortPaletteNoImage ==
    ( /\ pc = "load_titlepic"
      /\ Holds(wad_path, "PLAYPAL") \/ Holds(iwad_path, "PLAYPAL")
      /\ Len(FirstPlaypal) < 768 )
        => result.ret = None

\* C14 (as claimed): every image a load attempt produces has positive width
\* and height and exactly width * height * 4 bytes, on every dispatch path,
\* and an attempt yields either such an image or nothing.
C14_CompleteImageOrNothing ==
    Resolved({"TITLEPIC", "TITLE", "HTITLE"}) =>
        \/ /\ result.ret = Some(<<>>)
           /\ IsSome(result.texture)
           /\ result.texture.val.width > 0
           /\ result.texture.val.height > 0
           /\ Len(result.texture.val.rgba)
                  = result.texture.val.width * result.texture.val.height * 4
        \/ /\ result.ret = None
           /\ result.texture = None

\* C15 (as claimed): with no override archive and a base archive holding a
\* 768-byte PLAYPAL whose index 1 is RGB(255, 0, 0) and a 2 x 1 TITLEPIC of
\* one post a column, each writing index 1 at row 0, the load returns width
\* 2, height 1 and the bytes 255, 0, 0, 16, 255, 0, 0, 16.
C15_EndToEnd2x1 ==
    ( /\ pc = "load_titlepic"
      /\ wad_path = NoPath
      /\ Holds(iwad_path, "PLAYPAL") /\ Holds(iwad_path, "TITLEPIC")
      /\ iwad_path.val.lumps["PLAYPAL"].val = RedPalette
      /\ iwad_path.val.lumps["TITLEPIC"].val \in Patches2x1 )
        => result.texture = Some(Texture(2, 1, << 255, 0, 0, 16, 255, 0, 0, 16 >>))

----------------------------------------------------------------------------
(* decode_titlepic step by step, wad.rs:47-84: one step a post. *)

\* A buffer whose w offsets all are o, followed by the posts c of one column:
\* with o = 0 every column starts in the offset table itself, with o = 4w
\* the columns share their post data.
AliasedPatch(seed, w, c, o) ==
    LET Table[x \in 0..w] ==
            IF x = w THEN <<>> ELSE u32_to_le_bytes(o) \o Table[x + 1]
    IN  Table[0] \o ColumnBytes(seed, 0, c)

PatchLayouts == {"table", "overlay", "into table", "shared"}

InitPosts ==
    /\ width \in 1..MaxWidth
    /\ height \in 1..MaxHeight
    /\ \E seed \in {250}, c \in Columns, cut \in 0..MaxCut, layout \in PatchLayouts :
         /\ layout # "table" => cut = 0
         /\ layout # "overlay" => height = MaxHeight
         /\ built = IF layout = "table" THEN [seed |-> seed, posts |-> c, cut |-> cut]
                    ELSE NotBuilt
         /\ data = CASE layout = "table" ->
                          LET b == BuildPatch(seed, width, c)
                          IN  SubSeq(b, 1, Len(b) - cut)
                     [] layout = "overlay" -> OverlayPatch(seed, width, height, c)
                     [] layout = "into table" -> AliasedPatch(seed, width, c, 0)
                     [] layout = "shared" -> AliasedPatch(seed, width, c, 4 * width)
    /\ palette = GenBytes(PLAYPAL_LEN, 7, 3)
    /\ iwad_path = NoPath /\ wad_path = NoPath
    /\ result = NoResult
    /\ pc = "start"
    /\ AppIdle /\ LoopIdle /\ TabIdle

\* wad.rs:47-51: out is allocated; a buffer too short for the table is refused.
BeginDecode ==
    /\ pc = "start"
    /\ loop_out' = [i \in 1..(width * height * 4) |-> 0]
    /\ IF OffsetTableMissing(data, width)
       THEN result' = None /\ pc' = "done"
       ELSE result' = result /\ pc' = "column"
    /\ UNCHANGED <<argvars, appvars, loop_x, loop_pos, tabvars>>

\* wad.rs:60-61: column loop_x starts at its offset.
StartColumn ==
    /\ pc = "column"
    /\ loop_x < width
    /\ loop_pos' = ColOffset(data, loop_x)
    /\ pc' = "post"
    /\ UNCHANGED <<argvars, appvars, loop_x, loop_out, result, tabvars>>

\* wad.rs:63-69: the column ends at the end of the buffer or at byte 255.
EndColumn ==
    /\ pc = "post"
    /\ IF loop_pos >= Len(data) THEN TRUE ELSE data[loop_pos + 1] = POST_END
    /\ loop_x' = loop_x + 1
    /\ pc' = "column"
    /\ UNCHANGED <<argvars, appvars, loop_pos, loop_out, result, tabvars>>

\* wad.rs:66-81: one post is read and written.
ReadPost ==
    /\ pc = "post"
    /\ loop_pos < Len(data)
    /\ data[loop_pos + 1] # POST_END
    /\ IF loop_pos + 1 >= Len(data)
       THEN /\ result' = Panic("data index")
            /\ pc' = "done"
            /\ UNCHANGED <<loop_pos, loop_out>>
       ELSE LET y_start == data[loop_pos + 1]
                n_pixels == data[loop_pos + 2]
                r == WritePixels(data, palette, width, loop_x, y_start,
                                 y_start + n_pixels, PixelStart(loop_pos), loop_out)
            IN  IF IsPanic(r)
                THEN /\ result' = r
                     /\ pc' = "done"
                     /\ UNCHANGED <<loop_pos, loop_out>>
                ELSE /\ loop_pos' = NextPost(r.pos)
                     /\ loop_out' = r.out
                     /\ UNCHANGED <<result, pc>>
    /\ UNCHANGED <<argvars, appvars, loop_x, tabvars>>

\* wad.rs:84: every column is done.
EndDecode ==
    /\ pc = "column"
    /\ loop_x >= width
    /\ result' = Some(loop_out)
    /\ pc' = "done"
    /\ UNCHANGED <<argvars, appvars, loopvars, tabvars>>

NextPosts == BeginDecode \/ StartColumn \/ EndColumn \/ ReadPost \/ EndDecode

SpecPosts == InitPosts /\ [][NextPosts]_vars

\* The steps end with what decode_titlepic returns.
StepsAgree ==
    pc = "done" => result = decode_titlepic(data, palette, width, height)

\* C16 (as claimed): after a post starting at position p with run length n
\* has been processed, the next post of the column is read at p + 3 + n.
C16_CursorAdvance3 ==
    [][ (pc = "post" /\ pc' = "post") => loop_pos' = loop_pos + 3 + data[loop_pos + 2] ]_vars

\* C16 (amended): after a post starting at position p with run length n has
\* been processed, the read cursor has advanced by 4 + n bytes (three header
\* bytes, n pixels, one unused byte): the next post is read at p + 4 + n.
C16_CursorAdvance4 ==
    [][ (pc = "post" /\ pc' = "post") => loop_pos' = loop_pos + 4 + data[loop_pos + 2] ]_vars

\* C16 witness: the second post of a column is about to be read, 4 + n bytes
\* after the first, whose run length n is not 0.
C16_Witness ==
    /\ pc = "post"
    /\ loop_pos < Len(data)
    /\ ColOffset(data, loop_x) + 2 <= Len(data)
    /\ data[ColOffset(data, loop_x) + 2] > 0
    /\ loop_pos = ColOffset(data, loop_x) + 4 + data[ColOffset(data, loop_x) + 2]
    /\ data[loop_pos + 1] # 255

\* The first four bytes of data are the little-endian pair (width, height),
\* and get_titlepic_dimensions returns that pair.
DecodedAtSniffed ==
    /\ Len(data) >= 4
    /\ width = data[1] + 256 * data[2]
    /\ height = data[3] + 256 * data[4]
    /\ get_titlepic_dimensions(data) = Value(<< width, height >>)

\* C20: when a Primary lump is decoded at its sniffed dimensions (w, h), the
\* offset used for column x is the little-endian 32-bit value of bytes
\* 4x .. 4x+3, read from byte 0 on, so the offset of column 0 is w + 65536*h.
C20_TableOverHeader ==
    [][ (pc = "column" /\ pc' = "post" /\ DecodedAtSniffed) =>
            /\ data[4 * loop_x + 4] < 128 =>
                 loop_pos' = data[4 * loop_x + 1] + 256 * data[4 * loop_x + 2]
                               + 65536 * data[4 * loop_x + 3] + 16777216 * data[4 * loop_x + 4]
            /\ loop_x = 0 => loop_pos' = width + 65536 * height ]_vars

\* C20 witness: column 0 of a lump decoded at its sniffed dimensions starts
\* at w + 65536*h, and column 1 at the offset held in bytes 4..7.
C20_Witness ==
    /\ pc = "post"
    /\ DecodedAtSniffed
    /\ width = 2
    /\ loop_x = 1
    /\ loop_pos = data[5]
    /\ ColOffset(data, 0) = 2 + 65536 * height

----------------------------------------------------------------------------
(* The update loop, mod.rs:63-110: reload_titlepic_if_needed, then the user
   interface.  iwad_path and wad_path are the selected tab's iwad_path and
   input_paths.get(0), which is all that mod.rs:65-67 reads of the tabs. *)

ArchiveOf(pp, t, c) ==
    [opens |-> TRUE,
     lumps |-> [n \in LumpNames |->
                  IF n = "PLAYPAL" THEN pp ELSE IF n = t THEN Some(c) ELSE None]]

\* A palette and a picture; a raw title picture alone; a palette alone; a
\* palette and a title lump too short for its offset table; a short palette.
FullArchive == ArchiveOf(Some(RedPalette), "TITLEPIC", OverlaidPatch2x1)
RawTitleArchive == ArchiveOf(None, "TITLE", GenBytes(ScreenWidth * ScreenHeight, 1, 0))
PaletteArchive == ArchiveOf(Some(GenBytes(PLAYPAL_LEN, 7, 3)), "none", <<>>)
TruncatedArchive == ArchiveOf(Some(RedPalette), "TITLEPIC", << 0, 0, 0, 0, 0, 0, 0, 0 >>)
ShortPaletteArchive == ArchiveOf(Some(GenBytes(PLAYPAL_LEN - 1, 1, 0)), "TITLEPIC", OverlaidPatch2x1)

AppArchives ==
    { FullArchive, RawTitleArchive, PaletteArchive, TruncatedArchive, ShortPaletteArchive }

AppPaths == { Some(a) : a \in AppArchives }

\* main.rs:198-200 and confy::load: no texture, no last paths, the tabs as stored.
InitApp ==
    /\ iwad_path \in { NoPath } \cup AppPaths
    /\ wad_path \in { NoPath } \cup AppPaths
    /\ data = NoData /\ palette = NoData
    /\ width = 0 /\ height = 0 /\ built = NotBuilt
    /\ result = NoResult
    /\ pc = "update"
    /\ AppIdle /\ LoopIdle /\ TabIdle

\* Mutant: the picture is loaded at every update that has a path.
need_titlepic_every_update == wad_path # NoPath \/ iwad_path # NoPath

\* mod.rs:68-73.
need_titlepic ==
    /\ wad_path # NoPath \/ iwad_path # NoPath
    /\ \/ last_iwad_path # iwad_path
       \/ last_wad_path # wad_path
       \/ titlepic_texture = None

\* mod.rs:63-79, called at mod.rs:85.  prev_seen records what this call read:
\* the two paths and the texture shown before it.
ReloadTitlepicIfNeeded ==
    /\ pc = "update"
    /\ prev_seen' = Some([iwad_path |-> iwad_path, wad_path |-> wad_path,
                          texture |-> titlepic_texture])
    /\ did_load' = need_titlepic
    /\ IF need_titlepic
       THEN /\ result' = load_titlepic(iwad_path, wad_path)
            /\ titlepic_texture' = TextureAfter(titlepic_texture, result')
            /\ IF IsPanic(result'.ret)
               THEN /\ pc' = "crashed"
                    /\ UNCHANGED <<last_iwad_path, last_wad_path>>
               ELSE /\ pc' = "ui"
                    /\ last_iwad_path' = iwad_path
                    /\ last_wad_path' = wad_path
       ELSE /\ result' = NoResult
            /\ pc' = "ui"
            /\ UNCHANGED <<titlepic_texture, last_iwad_path, last_wad_path>>
    /\ UNCHANGED <<argvars, loopvars, tabvars>>

\* mod.rs:88-110: the frame is drawn and no path is touched.
KeepPaths ==
    /\ pc = "ui"
    /\ pc' = "update"
    /\ UNCHANGED <<argvars, result, appvars, loopvars, tabvars>>

\* tab_bar_ui.rs:134-138 and 140-174: another tab becomes the selected one.
SelectTab ==
    /\ pc = "ui"
    /\ iwad_path' \in { NoPath } \cup AppPaths
    /\ wad_path' \in { NoPath } \cup AppPaths
    /\ << iwad_path', wad_path' >> # << iwad_path, wad_path >>
    /\ pc' = "update"
    /\ UNCHANGED <<data, palette, width, height, built, result, appvars, loopvars, tabvars>>

\* tab_bar_ui.rs:179-183: a new tab with TabConfig::default() is selected.
NewTab ==
    /\ pc = "ui"
    /\ iwad_path' = NoPath
    /\ wad_path' = NoPath
    /\ pc' = "update"
    /\ UNCHANGED <<data, palette, width, height, built, result, appvars, loopvars, tabvars>>

\* game_profile_ui.rs:165: a base archive is picked.
PickIwad ==
    /\ pc = "ui"
    /\ iwad_path' \in AppPaths
    /\ pc' = "update"
    /\ UNCHANGED <<wad_path, data, palette, width, height, built, result, appvars, loopvars, tabvars>>

\* game_profile_ui.rs:206-263 and mod.rs:102-105: input paths are added,
\* moved, replaced or removed, so that another one, or none, is the first.
EditInputPaths ==
    /\ pc = "ui"
    /\ wad_path' \in { NoPath } \cup AppPaths
    /\ wad_path' # wad_path
    /\ pc' = "update"
    /\ UNCHANGED <<iwad_path, data, palette, width, height, built, result, appvars, loopvars, tabvars>>

NextApp ==
    \/ ReloadTitlepicIfNeeded
    \/ KeepPaths
    \/ SelectTab
    \/ NewTab
    \/ PickIwad
    \/ EditInputPaths

SpecApp == InitApp /\ [][NextApp]_vars

\* This call of reload_titlepic_if_needed reads the paths the call before it read.
PathsUnchanged ==
    /\ pc = "update"
    /\ IsSome(prev_seen)
    /\ prev_seen.val.iwad_path = iwad_path
    /\ prev_seen.val.wad_path = wad_path

\* C17 (as claimed): if update runs twice in a row with the selected tab's
\* base path and first input path unchanged, the second update performs no
\* load attempt, also when the attempt before produced no image.
C17_NoLoadWhenUnchanged ==
    [][ (PathsUnchanged /\ pc' # "update") => ~did_load' ]_vars

\* C17 (amended): if update runs twice in a row with the two paths
\* unchanged, the second update performs no load attempt when an image is
\* displayed or both paths are absent; when no image is displayed and a path
\* is present, the second update attempts the load again.
C17_NoLoadWhenUnchangedAndShown ==
    [][ (PathsUnchanged /\ pc' # "update") =>
            (did_load' <=> (titlepic_texture = None
                              /\ (iwad_path # NoPath \/ wad_path # NoPath))) ]_vars

\* C17 witness: the second of two updates over the same present path, with an
\* image displayed, performed no load attempt.
C17_Witness ==
    /\ pc = "ui"
    /\ IsSome(prev_seen)
    /\ prev_seen.val.iwad_path = iwad_path
    /\ prev_seen.val.wad_path = wad_path
    /\ prev_seen.val.texture # None
    /\ iwad_path = Some(FullArchive)
    /\ last_iwad_path = iwad_path
    /\ ~did_load
    /\ titlepic_texture # None

\* C18: after every update, a displayed image was loaded from the currently
\* active pair of paths, also when both paths have become absent.
C18_ShownImageIsCurrent ==
    (pc = "ui" /\ titlepic_texture # None) =>
        /\ last_iwad_path = iwad_path
        /\ last_wad_path = wad_path
        /\ titlepic_texture = load_titlepic(iwad_path, wad_path).texture

\* C19: whenever a load attempt fails (no palette, no title lump, or the
\* decoder returns nothing), no image is left: the texture displayed before
\* the attempt is cleared.
C19_FailedLoadClears ==
    (pc = "ui" /\ did_load /\ result.ret = None) => titlepic_texture = None

\* The attempt failed at the palette, at the title lump, at the decoder.
FailedAt ==
    IF Len(result.calls) = 1 THEN "palette"
    ELSE IF Len(result.calls) = 2 THEN "title lump"
    ELSE "decoder"

\* C19 witness: an image was displayed, the paths changed, and the attempt
\* for the new paths found a palette and a title lump but decoded nothing;
\* no image is left.
C19_Witness ==
    /\ pc = "ui"
    /\ did_load
    /\ result.ret = None
    /\ FailedAt = "decoder"
    /\ prev_seen.val.texture # None
    /\ titlepic_texture = None

----------------------------------------------------------------------------
(* The tab bar, tab_bar_ui.rs:128-200.  A tab is named by a number, so that
   the tab a selection points at can be followed through a removal. *)

saturating_sub(a, b) == IF a > b THEN a - b ELSE 0

\* Vec::remove(i), i counted from 0.
Remove(t, i) == SubSeq(t, 1, i) \o SubSeq(t, i + 2, Len(t))

\* Lists of 1..MaxTabs different tabs.
TabLists ==
    { t \in UNION { [1..n -> 1..MaxTabs] : n \in 1..MaxTabs } :
        \A a, b \in 1..Len(t) : a # b => t[a] # t[b] }

\* The name of the tab that tab_bar_ui.rs:180 pushes.
NewTabName(t) ==
    CHOOSE k \in 1..MaxTabs :
        /\ \A a \in 1..Len(t) : t[a] # k
        /\ \A j \in 1..(k - 1) : \E a \in 1..Len(t) : t[a] = j

Event(op, i) ==
    [op |-> op, i |-> i, prev_selected |-> selected_tab, old_tabs |-> tabs]

\* Mutant: the selection is only kept below the new tab count, as in
\* main.rs:327-329.
CloseSelection_clamp(prev_selected, old_len, i) ==
    IF prev_selected >= old_len - 1 THEN old_len - 2 ELSE prev_selected

\* tab_bar_ui.rs:142-172: the selection after tab i of old_len tabs is closed.
CloseSelection(prev_selected, old_len, i) ==
    LET new_len == old_len - 1
    IN  IF prev_selected = old_len THEN new_len
        ELSE IF prev_selected = i
             THEN IF i >= new_len THEN saturating_sub(new_len, 1) ELSE i
        ELSE IF i < prev_selected THEN saturating_sub(prev_selected, 1)
        ELSE prev_selected

\* tab_bar_ui.rs:135-138: the label of tab i is clicked.
DoSelectTab(i) ==
    /\ i \in 0..(Len(tabs) - 1)
    /\ selected_tab' = i
    /\ tabs' = tabs
    /\ tab_event' = Event("select", i)

\* tab_bar_ui.rs:139-176: the close button of tab i is clicked.
DoCloseTab(i) ==
    /\ Len(tabs) > 1
    /\ i \in 0..(Len(tabs) - 1)
    /\ tabs' = Remove(tabs, i)
    /\ selected_tab' = CloseSelection(selected_tab, Len(tabs), i)
    /\ tab_event' = Event("close", i)

\* tab_bar_ui.rs:179-183: "+" is clicked.
DoNewTab ==
    /\ Len(tabs) < MaxTabs
    /\ tabs' = Append(tabs, NewTabName(tabs))
    /\ selected_tab' = saturating_sub(Len(tabs'), 1)
    /\ tab_event' = Event("new", Len(tabs))

\* tab_bar_ui.rs:193-199: SETTINGS is clicked.
DoSelectSettings ==
    /\ selected_tab' = Len(tabs)
    /\ tabs' = tabs
    /\ tab_event' = Event("settings", Len(tabs))

\* tab_bar_ui on any configuration it can be handed: a list of tabs and a
\* selection that is one of them or Settings.
InitTabBar ==
    /\ tabs \in TabLists
    /\ selected_tab \in 0..Len(tabs)
    /\ tab_event = NoEvent
    /\ iwad_path = NoPath /\ wad_path = NoPath
    /\ data = NoData /\ palette = NoData
    /\ width = 0 /\ height = 0 /\ built = NotBuilt
    /\ result = NoResult
    /\ pc = "tab_bar"
    /\ AppIdle /\ LoopIdle

ClickTab ==
    /\ pc = "tab_bar"
    /\ \E i \in 0..(MaxTabs - 1) : DoSelectTab(i)
    /\ UNCHANGED <<argvars, result, pc, appvars, loopvars>>

ClickClose ==
    /\ pc = "tab_bar"
    /\ \E i \in 0..(MaxTabs - 1) : DoCloseTab(i)
    /\ UNCHANGED <<argvars, result, pc, appvars, loopvars>>

ClickNewTab ==
    /\ pc = "tab_bar"
    /\ DoNewTab
    /\ UNCHANGED <<argvars, result, pc, appvars, loopvars>>

ClickSettings ==
    /\ pc = "tab_bar"
    /\ DoSelectSettings
    /\ UNCHANGED <<argvars, result, pc, appvars, loopvars>>

NextTabBar == ClickTab \/ ClickClose \/ ClickNewTab \/ ClickSettings

SpecTabBar == InitTabBar /\ [][NextTabBar]_vars

\* The tab the selection pointed at before the latest click; 0 is Settings.
SelectedBefore ==
    IF tab_event.prev_selected = Len(tab_event.old_tabs) THEN 0
    ELSE tab_event.old_tabs[tab_event.prev_selected + 1]

\* The tab the selection points at; 0 is Settings.
SelectedNow == IF selected_tab = Len(tabs) THEN 0 ELSE tabs[selected_tab + 1]

\* C21: closing tab i keeps the selection on the same logical target.
\* Settings stays selected, at the new tab count; a selected tab other than
\* the closed one stays selected, one index lower when the closed tab was
\* before it and at the same index when it was after it; when the selected
\* tab itself is closed, the tab that shifted into index i is selected, or
\* the new last tab when the closed tab was the last.
C21_CloseKeepsTarget ==
    tab_event.op = "close" =>
        LET i == tab_event.i
            prev == tab_event.prev_selected
            old == tab_event.old_tabs
        IN  /\ Len(old) > 1
            /\ Len(tabs) = Len(old) - 1
            /\ prev = Len(old) => selected_tab = Len(tabs)
            /\ (prev < Len(old) /\ i < prev) =>
                   selected_tab = prev - 1 /\ SelectedNow = SelectedBefore
            /\ (prev < Len(old) /\ i > prev) =>
                   selected_tab = prev /\ SelectedNow = SelectedBefore
            /\ (i = prev /\ i < Len(old) - 1) =>
                   selected_tab = i /\ SelectedNow = old[i + 2]
            /\ (i = prev /\ i = Len(old) - 1) =>
                   selected_tab = Len(tabs) - 1 /\ SelectedNow = old[i]

\* C21 witness: a tab before the selected tab was closed, and the selection
\* moved down by one with it.
C21_Witness ==
    /\ tab_event.op = "close"
    /\ tab_event.i < tab_event.prev_selected
    /\ tab_event.prev_selected < Len(tab_event.old_tabs)
    /\ selected_tab = tab_event.prev_selected - 1
    /\ SelectedNow = SelectedBefore

----------------------------------------------------------------------------
(* The tab bar inside update, mod.rs:83-110: tabs[selected_tab] is indexed by
   reload_titlepic_if_needed (mod.rs:65), the tab bar takes at most one click
   (mod.rs:88), and tabs[selected_tab] is indexed again for the input-path
   removals (mod.rs:99). *)

\* config.rs:52-55, or a stored configuration: a tab is selected.
InitFrames ==
    /\ tabs \in TabLists
    /\ selected_tab \in 0..(Len(tabs) - 1)
    /\ tab_event = NoEvent
    /\ iwad_path = NoPath /\ wad_path = NoPath
    /\ data = NoData /\ palette = NoData
    /\ width = 0 /\ height = 0 /\ built = NotBuilt
    /\ result = NoResult
    /\ pc = "update"
    /\ AppIdle /\ LoopIdle

\* mod.rs:65: &cfg.tabs[cfg.selected_tab].
IndexForReload ==
    /\ pc = "update"
    /\ pc' = IF selected_tab < Len(tabs) THEN "ui" ELSE "crashed"
    /\ result' = IF selected_tab < Len(tabs) THEN result ELSE Panic("tabs index")
    /\ UNCHANGED <<argvars, appvars, loopvars, tabvars>>

\* mod.rs:88: no click on the tab bar in this frame.
FrameNoClick ==
    /\ pc = "ui"
    /\ pc' = "removals"
    /\ tab_event' = NoEvent
    /\ UNCHANGED <<argvars, result, appvars, loopvars, tabs, selected_tab>>

FrameClickTab ==
    /\ pc = "ui"
    /\ \E i \in 0..(MaxTabs - 1) : DoSelectTab(i)
    /\ pc' = "removals"
    /\ UNCHANGED <<argvars, result, appvars, loopvars>>

FrameClickClose ==
    /\ pc = "ui"
    /\ \E i \in 0..(MaxTabs - 1) : DoCloseTab(i)
    /\ pc' = "removals"
    /\ UNCHANGED <<argvars, result, appvars, loopvars>>

FrameClickNewTab ==
    /\ pc = "ui"
    /\ DoNewTab
    /\ pc' = "removals"
    /\ UNCHANGED <<argvars, result, appvars, loopvars>>

FrameClickSettings ==
    /\ pc = "ui"
    /\ DoSelectSettings
    /\ pc' = "removals"
    /\ UNCHANGED <<argvars, result, appvars, loopvars>>

\* mod.rs:99: cfg.tabs.get_mut(cfg.selected_tab).unwrap().
IndexForRemovals ==
    /\ pc = "removals"
    /\ pc' = IF selected_tab < Len(tabs) THEN "update" ELSE "crashed"
    /\ result' = IF selected_tab < Len(tabs) THEN result ELSE Panic("unwrap on None")
    /\ UNCHANGED <<argvars, appvars, loopvars, tabvars>>

NextFrames ==
    \/ IndexForReload
    \/ FrameNoClick
    \/ FrameClickTab
    \/ FrameClickClose
    \/ FrameClickNewTab
    \/ FrameClickSettings
    \/ IndexForRemovals

SpecFrames == InitFrames /\ [][NextFrames]_vars

\* C22: after any sequence of tab bar actions, selected_tab is a valid index
\* into tabs at the moments update indexes tabs[selected_tab], so that the
\* indexing never fails.
C22_SelectedTabValid ==
    /\ pc \in {"update", "removals"} => selected_tab < Len(tabs)
    /\ pc # "crashed"

----------------------------------------------------------------------------
(* Palette and title lump from different archives, under SpecLoad. *)

\* The title entry of archive a, as << name, contents >>, or None.
TitleOf(a) == TitleSearch(<< Some(a) >>, 1, 1)

\* One archive holding the PLAYPAL entry of a and the title entry of b.
Merged(a, b) ==
    ArchiveOf(by_id(a, "PLAYPAL"), TitleOf(b).val[1], TitleOf(b).val[2])

\* The override archive holds a title lump but no PLAYPAL, the base archive
\* holds PLAYPAL.
TitleOverBasePalette ==
    /\ wad_path # NoPath /\ iwad_path # NoPath
    /\ load_wad_file(wad_path.val) /\ load_wad_file(iwad_path.val)
    /\ IsSome(TitleOf(wad_path.val))
    /\ ~IsSome(by_id(wad_path.val, "PLAYPAL"))
    /\ IsSome(by_id(iwad_path.val, "PLAYPAL"))

\* The override archive holds PLAYPAL but no title lump, the base archive
\* holds a title lump.
PaletteOverBaseTitle ==
    /\ wad_path # NoPath /\ iwad_path # NoPath
    /\ load_wad_file(wad_path.val) /\ load_wad_file(iwad_path.val)
    /\ IsSome(by_id(wad_path.val, "PLAYPAL"))
    /\ ~IsSome(TitleOf(wad_path.val))
    /\ IsSome(TitleOf(iwad_path.val))

\* C23: the palette and the title lump are found by two independent
\* searches, so they may come from different archives: an override title
\* lump is decoded with the base archive's palette, and an override palette
\* is applied to a title lump only the base archive holds.  The attempt ends
\* as it does on the one archive holding that palette and that title lump.
C23_PaletteAndTitleApart ==
    pc = "load_titlepic" =>
        /\ TitleOverBasePalette =>
             result = load_titlepic(NoPath, Some(Merged(iwad_path.val, wad_path.val)))
        /\ PaletteOverBaseTitle =>
             result = load_titlepic(NoPath, Some(Merged(wad_path.val, iwad_path.val)))

\* C23 witness: an image was decoded from the override archive's title lump,
\* which differs from the base archive's, with the base archive's palette.
C23_Witness ==
    /\ pc = "load_titlepic"
    /\ TitleOverBasePalette
    /\ IsSome(TitleOf(iwad_path.val))
    /\ TitleOf(iwad_path.val) # TitleOf(wad_path.val)
    /\ IsSome(result.texture)
    /\ result = load_titlepic(NoPath, Some(Merged(iwad_path.val, wad_path.val)))
    /\ result # load_titlepic(iwad_path, NoPath)

----------------------------------------------------------------------------
(* Palette reads, under SpecLoad. *)

\* C24: every palette load_playpal_lump returns has exactly 768 bytes, and
\* for every lump byte used as a palette index (0..255) the palette reads at
\* 3*idx, 3*idx+1 and 3*idx+2 of decode_titlepic and decode_htitle are
\* within it: no load attempt ends in an out-of-range palette read.
C24_PaletteReadsInBounds ==
    pc = "load_titlepic" =>
        /\ LET pal == load_playpal_lump(iwad_path, wad_path)
               len == IF IsSome(pal) THEN Len(pal.val) ELSE PLAYPAL_LEN
           IN  /\ len = PLAYPAL_LEN
               /\ \A idx \in 0..255 : 3 * idx + 2 < len
        /\ result.ret # Panic("palette index")

\* C24 witness: decode_titlepic read the palette at index 255, the last
\* triple of the palette, and wrote it to the first pixel of the image.
C24_Witness ==
    /\ pc = "load_titlepic"
    /\ load_titlepic_lump(iwad_path, wad_path)
         = Some(<< "TITLEPIC", BuildPatch(251, ScreenWidth, << <<0, 1>> >>) >>)
    /\ IsSome(result.texture)
    /\ LET p == load_playpal_lump(iwad_path, wad_path).val
           img == result.texture.val.rgba
       IN  /\ p[PLAYPAL_LEN] # 0
           /\ SubSeq(img, 1, 3) = SubSeq(p, PLAYPAL_LEN - 2, PLAYPAL_LEN)

----------------------------------------------------------------------------
(* The end of decode_titlepic's loops, under SpecPosts. *)

\* Within a column the read position grows with every post.
PositionIncreases ==
    [][ (pc = "post" /\ pc' = "post") => loop_pos' > loop_pos ]_vars

\* The read position is at a 255 sentinel or at the end of the buffer.
AtColumnEnd ==
    IF loop_pos >= Len(data) THEN TRUE ELSE data[loop_pos + 1] = POST_END

\* C25: decode_titlepic terminates for every buffer and every offset table,
\* also when offsets point into the table or to shared post data: within a
\* column the read position grows with every post, and each column's loop
\* ends at a 255 sentinel or at the end of the buffer.
C25_ColumnsEnd ==
    [][ pc = "post" =>
            \/ pc' = "post" /\ loop_pos' > loop_pos
            \/ pc' = "column" /\ AtColumnEnd ]_vars

====
